---- MODULE Spec2Model ----
(***************************************************************************)
(* dbt-superset, push_descriptions: the credential session                 *)
(* (superset_api.Superset), main from its credentials check through the    *)
(* fetch of the datasets, the loading of the dbt tables and the            *)
(* per-dataset reconcile loop, the merge of dbt and default descriptions   *)
(* into a Superset dataset and the write decision (push_descriptions.py).  *)
(*                                                                         *)
(* Text is a sequence of tokens (words, blanks, markup).  Python's None is *)
(* the value None below.  A dict is a function on its keys, so "k in d" is *)
(* k \in DOMAIN d.                                                         *)
(***************************************************************************)
EXTENDS Integers, Sequences, FiniteSets, TLC

VARIABLES
    pc,                    \* position of main
    run,                   \* which invocation of main this is
    cfg,                   \* main's arguments: refresh_columns, pause, the three filters
    creds,                 \* main's arguments username and password
    access_token,          \* Superset.access_token (None or a token number)
    refresh_token,         \* Superset.refresh_token (None or a token number)
    issued,                \* access tokens the remote has issued so far
    remote,                \* the remote's datasets: id -> description, columns, owners, stale
    listing,               \* the remote's answer to GET /dataset/, page by page
    manifest,              \* target/manifest.json: nodes and sources, in file order
    catalog,               \* target/catalog.json
    fetcher,               \* get_datasets_from_superset: page_number, datasets, datasets_keys
    received,              \* the pages get_datasets_from_superset has been answered
    sst_datasets,          \* get_datasets_from_superset's result
    matched,               \* sst_datasets_dbt_filtered: sequence of {id, key}
    dbt_tables,            \* get_tables_from_dbt's result: key -> {columns, description}
    default_descriptions,  \* get_default_column_desc's result
    idx,                   \* loop index i of main (1-based)
    dataset,               \* the dict of the dataset being processed
    call,                  \* the last Superset.request call: sends, refreshes, outcome
    log,                   \* remote calls and pauses of the dataset being processed
    attempted,             \* this run: the ids of the datasets the loop has taken up
    outcome,               \* this run: per matched dataset, how its processing ended
    previous,              \* the run before: per matched dataset stored, skipped or other
    failure,               \* the assert main ended at, "none" if at none
    mutated                \* this run has sent a PUT

vars == <<pc, run, cfg, creds, access_token, refresh_token, issued, remote, listing,
          manifest, catalog, fetcher, received, sst_datasets, matched, dbt_tables,
          default_descriptions, idx, dataset, call, log, attempted, outcome, previous,
          failure, mutated>>

\* Python's None.
None == <<"None">>

----------------------------------------------------------------------------
(* Bounds of the model. *)

\* target columns of one dataset
MaxCols == 2
\* datasets in the matched list
MaxDatasets == 2
\* access tokens the remote issues in one run (login included)
MaxTokens == 2
\* invocations of main, one after the other
MaxRuns == 2

\* records in the remote's listing, when the fetch is checked on its own
MaxRecords == 3
\* entries in the manifest, when the loading of the tables is checked on its own
MaxEntries == 3

\* superset_pause_after_update's default
DefaultPause == 2

----------------------------------------------------------------------------
(* convert_markdown_to_plain_text *)

Blank == {" ", "\n"}
Tags == {"<p>", "</p>", "<strong>", "</strong>", "<pre>", "</pre>", "<code>", "</code>",
         "</code >"}

RECURSIVE Emphasis(_, _)
\* markdown(): every pair of "**" becomes <strong> ... </strong>; an unpaired
\* one stays as text.
Emphasis(s, open) ==
    IF s = <<>> THEN <<>>
    ELSE IF Head(s) = "**"
         THEN IF open THEN <<"</strong>">> \o Emphasis(Tail(s), FALSE)
              ELSE IF \E i \in 2..Len(s) : s[i] = "**"
                   THEN <<"<strong>">> \o Emphasis(Tail(s), TRUE)
                   ELSE <<"**">> \o Emphasis(Tail(s), FALSE)
         ELSE <<Head(s)>> \o Emphasis(Tail(s), open)

\* markdown(md_string): a paragraph with its emphasis marked up (the texts of
\* the runs below hold words, blanks and "**" only)
markdown(md) == IF md = <<>> THEN <<>> ELSE <<"<p>">> \o Emphasis(md, FALSE) \o <<"</p>">>

RECURSIVE StripPre(_)
\* re.sub(r'<pre>(.*?)</pre>', ' ', html): the shortest <pre>...</pre> spans
\* that hold no newline become one blank
StripPre(s) ==
    IF s = <<>> THEN <<>>
    ELSE IF Head(s) = "<pre>"
              /\ \E j \in 2..Len(s) : /\ s[j] = "</pre>"
                                      /\ \A k \in 2..(j-1) : s[k] # "\n"
         THEN LET j == CHOOSE j \in 2..Len(s) :
                          /\ s[j] = "</pre>"
                          /\ \A k \in 2..(j-1) : s[k] \notin {"\n", "</pre>"}
              IN  <<" ">> \o StripPre(SubSeq(s, j+1, Len(s)))
         ELSE <<Head(s)>> \o StripPre(Tail(s))

RECURSIVE StripCode(_)
\* re.sub(r'<code>(.*?)</code >', ' ', html): as StripPre, for a closing tag
\* written "</code >"
StripCode(s) ==
    IF s = <<>> THEN <<>>
    ELSE IF Head(s) = "<code>"
              /\ \E j \in 2..Len(s) : /\ s[j] = "</code >"
                                      /\ \A k \in 2..(j-1) : s[k] # "\n"
         THEN LET j == CHOOSE j \in 2..Len(s) :
                          /\ s[j] = "</code >"
                          /\ \A k \in 2..(j-1) : s[k] \notin {"\n", "</code >"}
              IN  <<" ">> \o StripCode(SubSeq(s, j+1, Len(s)))
         ELSE <<Head(s)>> \o StripCode(Tail(s))

\* ''.join(soup.findAll(text=True)): the text between the tags
SoupText(s) == SelectSeq(s, LAMBDA t : t \notin Tags)

RECURSIVE SingleLine(_)
\* re.sub(r'\s+', ' ', text)
SingleLine(s) ==
    IF s = <<>> THEN <<>>
    ELSE IF Head(s) \in Blank
         THEN IF Len(s) > 1 /\ s[2] \in Blank THEN SingleLine(<<" ">> \o Tail(Tail(s)))
              ELSE <<" ">> \o SingleLine(Tail(s))
         ELSE <<Head(s)>> \o SingleLine(Tail(s))

\* re.sub of the two encoding artifacts ("a^+->" stands for the mis-decoded
\* arrow of line 187, which is not ASCII)
Fixes(s) == [i \in 1..Len(s) |->
                 IF s[i] = "a^+->" THEN "->"
                 ELSE IF s[i] = "<null>" THEN "\"null\"" ELSE s[i]]

convert_markdown_to_plain_text(md_string) ==
    Fixes(SingleLine(SoupText(StripCode(StripPre(markdown(md_string))))))

----------------------------------------------------------------------------
(* merge_columns_info *)

\* dict.get(k, default)
Get(d, k, default) == IF k \in DOMAIN d THEN d[k] ELSE default

\* {} (a dict with no key)
EmptyDict == <<>>

\* d with the entries of upd added or replaced (d[k] = v; d.update(upd))
Updated(d, upd) == upd @@ d

\* column_description with the defaults file consulted before dbt
column_description_defaults_first(sst_column, dbt_columns, default_column_descs) ==
    LET column_name == sst_column.column_name
    IN  IF sst_column.expression = None \/ sst_column.expression = <<>>
        THEN IF column_name \in DOMAIN default_column_descs
                   /\ "desc" \in DOMAIN default_column_descs[column_name]
             THEN convert_markdown_to_plain_text(default_column_descs[column_name].desc)
             ELSE IF column_name \in DOMAIN dbt_columns
                        /\ "description" \in DOMAIN dbt_columns[column_name]
                  THEN convert_markdown_to_plain_text(dbt_columns[column_name].description)
                  ELSE sst_column.description
        ELSE sst_column.description

\* column_description with the default kept for columns without a description
column_description_keep_described(sst_column, dbt_columns, default_column_descs) ==
    LET column_name == sst_column.column_name
    IN  IF sst_column.expression = None \/ sst_column.expression = <<>>
        THEN IF column_name \in DOMAIN dbt_columns
                   /\ "description" \in DOMAIN dbt_columns[column_name]
             THEN convert_markdown_to_plain_text(dbt_columns[column_name].description)
             ELSE IF column_name \in DOMAIN default_column_descs
                        /\ "desc" \in DOMAIN default_column_descs[column_name]
                        /\ sst_column.description \in {None, <<>>}
                  THEN convert_markdown_to_plain_text(default_column_descs[column_name].desc)
                  ELSE sst_column.description
        ELSE sst_column.description

\* column_description without the test of the column's expression
column_description_any_column(sst_column, dbt_columns, default_column_descs) ==
    LET column_name == sst_column.column_name
    IN  IF column_name \in DOMAIN dbt_columns
              /\ "description" \in DOMAIN dbt_columns[column_name]
        THEN convert_markdown_to_plain_text(dbt_columns[column_name].description)
        ELSE IF column_name \in DOMAIN default_column_descs
                   /\ "desc" \in DOMAIN default_column_descs[column_name]
             THEN convert_markdown_to_plain_text(default_column_descs[column_name].desc)
             ELSE sst_column.description

\* lines 216-230: the description merge gives one target column
column_description(sst_column, dbt_columns, default_column_descs) ==
    LET column_name == sst_column.column_name
    IN  IF sst_column.expression = None \/ sst_column.expression = <<>>
        THEN IF column_name \in DOMAIN dbt_columns
                   /\ "description" \in DOMAIN dbt_columns[column_name]
             THEN convert_markdown_to_plain_text(dbt_columns[column_name].description)
             ELSE IF column_name \in DOMAIN default_column_descs
                        /\ "desc" \in DOMAIN default_column_descs[column_name]
                  THEN convert_markdown_to_plain_text(default_column_descs[column_name].desc)
                  ELSE sst_column.description
        ELSE sst_column.description

\* lines 205-234: columns_new
columns_new(sst_columns, dbt_columns, default_column_descs) ==
    [i \in 1..Len(sst_columns) |->
        [column_name |-> sst_columns[i].column_name,
         id          |-> sst_columns[i].id,
         description |-> column_description(sst_columns[i], dbt_columns,
                                            default_column_descs)]]

\* lines 236-240: description_new
description_new(sst_description, dbt_description) ==
    IF dbt_description = None
    THEN sst_description
    ELSE convert_markdown_to_plain_text(dbt_description)

\* line 243: owners_new
owners_new(sst_owners) == [i \in 1..Len(sst_owners) |-> sst_owners[i].id]

merge_columns_info(ds, tables, defaults) ==
    LET key                  == ds.key
        dbt_columns          == Get(Get(tables, key, EmptyDict), "columns", EmptyDict)
        default_column_descs == Get(defaults, "columns", EmptyDict)
        dbt_description      == Get(Get(tables, key, EmptyDict), "description", None)
    IN  Updated(ds,
            [columns_new     |-> columns_new(ds.columns, dbt_columns, default_column_descs),
             description_new |-> description_new(ds.description, dbt_description),
             owners_new      |-> owners_new(ds.owners)])

----------------------------------------------------------------------------
(* put_descriptions_to_superset: the write decision *)

RECURSIVE Insert(_, _)
\* c put into the id-sorted list lst after every element whose id is not larger
Insert(c, lst) ==
    IF lst = <<>> THEN <<c>>
    ELSE IF Head(lst).id <= c.id THEN <<Head(lst)>> \o Insert(c, Tail(lst))
         ELSE <<c>> \o lst

RECURSIVE sorted_by_id(_)
\* sorted(lst, key=lambda c: c["id"]): stable
sorted_by_id(lst) ==
    IF lst = <<>> THEN <<>>
    ELSE Insert(lst[Len(lst)], sorted_by_id(SubSeq(lst, 1, Len(lst) - 1)))

check_columns_equal(lst1, lst2) == sorted_by_id(lst1) = sorted_by_id(lst2)

\* columns_old as the columns GET /dataset/{id} returned, expression and all
columns_old_raw(ds) == ds.columns

\* lines 268-272: columns_old
columns_old(ds) ==
    [i \in 1..Len(ds.columns) |->
        [column_name |-> ds.columns[i].column_name,
         id          |-> ds.columns[i].id,
         description |-> ds.columns[i].description]]

\* needs_put with the columns left out of the comparison
needs_put_description_only(ds) == ds.description_new # ds.description

\* lines 274-275: whether put_descriptions_to_superset issues the PUT
needs_put(ds) ==
    \/ ds.description_new # ds.description
    \/ ~check_columns_equal(ds.columns_new, columns_old(ds))

\* line 276: payload
payload(ds) ==
    [description |-> ds.description_new, columns |-> ds.columns_new,
     owners |-> ds.owners_new]

----------------------------------------------------------------------------
(* The remote: what it answers and what a call does to it *)

\* requests.Response: the status and the 'msg' of the JSON body
Responses ==
    {[status |-> 200, msg |-> "other"],
     [status |-> 401, msg |-> "Token has expired"],
     [status |-> 401, msg |-> "other"],
     [status |-> 500, msg |-> "Token has expired"]}

\* an access token the remote hands out
AccessToken(n) == <<"access", n>>

\* The answers to POST /security/refresh: a new access token, or an error.
\* The remote issues at most MaxTokens access tokens in one run.
RefreshResponses(n) ==
    {[status |-> 401, msg |-> "other", access_token |-> None]}
    \cup (IF n < MaxTokens
          THEN {[status |-> 200, msg |-> "other", access_token |-> AccessToken(n + 1)]}
          ELSE {})

\* res.raise_for_status() raises
IsError(res) == res.status >= 400

\* the endpoints main calls
LoginEndpoint == <<"/security/login">>
RefreshTokenEndpoint == <<"/security/refresh">>
RefreshEndpoint(dataset_id) == <<"/dataset/", dataset_id, "/refresh">>
DatasetEndpoint(dataset_id) == <<"/dataset/", dataset_id>>
WriteEndpoint(dataset_id) == <<"/dataset/", dataset_id, "?override_columns=false">>

\* the column the database has and a stale dataset lacks
RefreshedColumn ==
    [id |-> 9, column_name |-> "added", description |-> None, expression |-> <<>>]

\* The dataset after a PUT /dataset/{id}?override_columns=false that the
\* remote accepted: the fields of the body replace the dataset's, a column by
\* its id; a request without owners leaves the dataset without owners (the
\* remote's behaviour that line 242 states).
Stored(d, kwargs) ==
    IF "json" \notin DOMAIN kwargs
    THEN [d EXCEPT !.owners = <<>>]
    ELSE LET json == kwargs.json IN
         [d EXCEPT
            !.description = json.description,
            !.owners = [i \in 1..Len(json.owners) |-> [id |-> json.owners[i]]],
            !.columns = [i \in 1..Len(d.columns) |->
                IF \E j \in 1..Len(json.columns) : json.columns[j].id = d.columns[i].id
                THEN LET j == CHOOSE j \in 1..Len(json.columns) :
                                  json.columns[j].id = d.columns[i].id
                     IN  [d.columns[i] EXCEPT
                            !.description = json.columns[j].description,
                            !.column_name = json.columns[j].column_name]
                ELSE d.columns[i]]]

\* The remote after one request that it answered
Serve(rem, sent) ==
    IF sent.status >= 400 \/ sent.method # "PUT" THEN rem
    ELSE LET id == sent.endpoint[2]
         IN  IF sent.endpoint = WriteEndpoint(id)
             THEN [rem EXCEPT ![id] = Stored(rem[id], sent.kwargs)]
             ELSE IF rem[id].stale
                  THEN [rem EXCEPT ![id].stale = FALSE,
                                   ![id].columns = Append(@, RefreshedColumn)]
                  ELSE rem

RECURSIVE ServeAll(_, _)
ServeAll(rem, sends) ==
    IF sends = <<>> THEN rem ELSE ServeAll(Serve(rem, Head(sends)), Tail(sends))

----------------------------------------------------------------------------
(* superset_api.Superset *)

Bearer(token) == <<"Bearer", token>>

\* the headers as they are given, without the access token
_headers_bare(token, headers) == headers

\* Superset._headers
_headers(token, headers) ==
    IF token = None THEN headers
    ELSE headers @@ [Authorization |-> Bearer(token)]

\* **request_kwargs: the dict of the params and the json of a call, here of
\* a call that gives neither
NoKwargs == EmptyDict

\* requests.request(method, url, headers=..., **kwargs) and its response
Sent(method, endpoint, headers, kwargs, res) ==
    [method |-> method, endpoint |-> endpoint, headers |-> headers,
     kwargs |-> kwargs,
     status |-> res.status, msg |-> res.msg]

\* lines 101-102: raise_for_status, then the body
Returned(sends, token, res) ==
    [sends |-> sends, access_token |-> token, raised |-> IsError(res), res |-> res]

\* line 98: the request sent again after the refresh
retry_kwargs(request_kwargs) == NoKwargs

\* request with the request sent a third time when the second answer is an
\* error too
request_retry_again(token, rtoken, method, endpoint, refresh_token_if_needed, headers, request_kwargs, res1, refreshed, res2) ==
    LET first == Sent(method, endpoint, _headers(token, headers), request_kwargs, res1)
    IN  IF refresh_token_if_needed /\ res1.status = 401
              /\ res1.msg = "Token has expired"
        THEN IF rtoken = None
             THEN Returned(<<first>>, token, res1)
             ELSE LET exchange == Sent("POST", RefreshTokenEndpoint,
                                       _headers(token, [Authorization |-> Bearer(rtoken)]),
                                       NoKwargs, refreshed)
                  IN  IF IsError(refreshed)
                      THEN Returned(<<first, exchange>>, token, refreshed)
                      ELSE LET second == Sent(method, endpoint,
                                              _headers(refreshed.access_token, headers),
                                              retry_kwargs(request_kwargs), res2)
                           IN  IF IsError(res2)
                               THEN Returned(<<first, exchange, second, second>>,
                                             refreshed.access_token, res2)
                               ELSE Returned(<<first, exchange, second>>,
                                             refreshed.access_token, res2)
        ELSE Returned(<<first>>, token, res1)

\* request with a refresh on every 401, whatever its message
request_any_401(token, rtoken, method, endpoint, refresh_token_if_needed, headers, request_kwargs, res1, refreshed, res2) ==
    LET first == Sent(method, endpoint, _headers(token, headers), request_kwargs, res1)
    IN  IF refresh_token_if_needed /\ res1.status = 401
        THEN IF rtoken = None
             THEN Returned(<<first>>, token, res1)
             ELSE LET exchange == Sent("POST", RefreshTokenEndpoint,
                                       _headers(token, [Authorization |-> Bearer(rtoken)]),
                                       NoKwargs, refreshed)
                  IN  IF IsError(refreshed)
                      THEN Returned(<<first, exchange>>, token, refreshed)
                      ELSE LET second == Sent(method, endpoint,
                                              _headers(refreshed.access_token, headers),
                                              retry_kwargs(request_kwargs), res2)
                           IN  Returned(<<first, exchange, second>>,
                                        refreshed.access_token, res2)
        ELSE Returned(<<first>>, token, res1)

\* request with the exchange attempted without a refresh token
request_without_token(token, rtoken, method, endpoint, refresh_token_if_needed, headers, request_kwargs, res1, refreshed, res2) ==
    LET first == Sent(method, endpoint, _headers(token, headers), request_kwargs, res1)
    IN  IF refresh_token_if_needed /\ res1.status = 401
              /\ res1.msg = "Token has expired"
        THEN LET exchange == Sent("POST", RefreshTokenEndpoint,
                                  _headers(token, [Authorization |-> Bearer(rtoken)]),
                                  NoKwargs, refreshed)
             IN  IF IsError(refreshed)
                 THEN Returned(<<first, exchange>>, token, refreshed)
                 ELSE LET second == Sent(method, endpoint,
                                         _headers(refreshed.access_token, headers),
                                         retry_kwargs(request_kwargs), res2)
                      IN  Returned(<<first, exchange, second>>,
                                   refreshed.access_token, res2)
        ELSE Returned(<<first>>, token, res1)

\* Superset.request, with _refresh_access_token inlined.  res1, refreshed and
\* res2 are the remote's answers to the request, to the refresh exchange and
\* to the request sent again.  The result: the requests sent, the access
\* token the session holds afterwards, whether HTTPError is raised, and the
\* response returned or raised.
request(token, rtoken, method, endpoint, refresh_token_if_needed, headers, request_kwargs, res1, refreshed, res2) ==
    LET first == Sent(method, endpoint, _headers(token, headers), request_kwargs, res1)
    IN  IF refresh_token_if_needed /\ res1.status = 401
              /\ res1.msg = "Token has expired"
        THEN IF rtoken = None
             THEN Returned(<<first>>, token, res1)
             ELSE LET exchange == Sent("POST", RefreshTokenEndpoint,
                                       _headers(token, [Authorization |-> Bearer(rtoken)]),
                                       NoKwargs, refreshed)
                  IN  IF IsError(refreshed)
                      THEN Returned(<<first, exchange>>, token, refreshed)
                      ELSE LET second == Sent(method, endpoint,
                                              _headers(refreshed.access_token, headers),
                                              retry_kwargs(request_kwargs), res2)
                           IN  Returned(<<first, exchange, second>>,
                                        refreshed.access_token, res2)
        ELSE Returned(<<first>>, token, res1)

----------------------------------------------------------------------------
(* The datasets, dbt tables and default descriptions of the runs *)

Old == <<"old">>
OrdersMd == <<"**", "Orders", "**", " ", "table">>
OrderAmount == <<"Order", " ", "amount">>
DefaultAmount == <<"default", " ", "\n", "amount">>

TableNames == <<"orders", "items", "users", "events">>

\* f'{schema}.{name}'
Key(schema, name) == <<schema, ".", name>>

KeyOf(i) == Key("sales", TableNames[i])

\* spec.md section 8, end-to-end scenario: one PUT is due
EndToEnd ==
    [remote |-> [description |-> Old,
                 columns |-> <<[id |-> 1, column_name |-> "amount",
                                description |-> <<>>, expression |-> <<>>]>>,
                 owners |-> <<[id |-> 1]>>,
                 stale |-> FALSE],
     table  |-> [columns |-> [amount |-> [description |-> OrderAmount]],
                 description |-> OrdersMd]]

\* spec.md section 8, no-op scenario: nothing to write
NoOp ==
    [remote |-> [description |-> Old,
                 columns |-> <<[id |-> 1, column_name |-> "amount",
                                description |-> <<>>, expression |-> <<>>]>>,
                 owners |-> <<[id |-> 3], [id |-> 7]>>,
                 stale |-> FALSE],
     table  |-> [columns |-> [amount |-> [description |-> <<>>]],
                 description |-> Old]]

\* a computed column, a column dbt lists without a description, a dataset
\* whose columns are behind the database
Mixed ==
    [remote |-> [description |-> None,
                 columns |-> <<[id |-> 2, column_name |-> "ratio",
                                description |-> <<"kept">>, expression |-> <<"a/b">>],
                               [id |-> 1, column_name |-> "amount",
                                description |-> Old, expression |-> None]>>,
                 owners |-> <<[id |-> 3], [id |-> 7]>>,
                 stale |-> TRUE],
     table  |-> [columns |-> [ratio  |-> [description |-> <<"src">>],
                              amount |-> [name |-> "amount"]],
                 description |-> None]]

Scenarios == <<EndToEnd, NoOp, Mixed>>

\* the scenario of the i-th dataset when the first dataset has scenario first:
\* the datasets of a run take the scenarios in turn
ScenarioOf(first, i) == Scenarios[((first + i - 2) % Len(Scenarios)) + 1]

\* the default-descriptions file: none given, or one
DefaultsFiles ==
    {EmptyDict,
     [columns |-> [amount |-> [desc |-> DefaultAmount],
                   added  |-> [desc |-> <<"new">>]]]}

----------------------------------------------------------------------------
(* get_datasets_from_superset *)

\* line 29: the page size the fetcher asks for
PageSize == 100

ListEndpoint == <<"/dataset/">>

\* lines 26-31: the query of one page
ListPayload(page_number) == [q |-> [page |-> page_number, page_size |-> PageSize]]

\* r['database']['id'] and superset_db_id: a number, tagged so that it can be
\* compared with None
DbId(n) == <<"db", n>>

\* the remote's answer to GET /dataset/: the page the query names, empty past
\* the last page; a request without a query gets the first page
ListResult(pages, sent) ==
    LET page == IF "params" \in DOMAIN sent.kwargs THEN sent.kwargs.params.q.page ELSE 0
    IN  IF page < Len(pages) THEN pages[page + 1] ELSE <<>>

\* sub in key, for strings
Contains(key, sub) ==
    \E i \in 0..(Len(key) - Len(sub)) : SubSeq(key, i + 1, i + Len(sub)) = sub

\* lines 40-41
passes(r, superset_db_id) ==
    r.kind = "physical" /\ (superset_db_id = None \/ r.database.id = superset_db_id)

\* line 49: the test of the continue
filtered_out(dataset_key, dataset_filter) ==
    dataset_filter \notin {None, <<>>} /\ ~Contains(dataset_key, dataset_filter)

\* the duplicate test with the assert taken out
seen_never(dataset_key, datasets_keys) == FALSE

\* line 61: the test of the assert
seen(dataset_key, datasets_keys) == dataset_key \in datasets_keys

\* lines 36-68: the records of one page, in order.  duplicate tells that the
\* assert of line 61 failed at one of them.
RECURSIVE page_datasets(_, _, _, _)

page_datasets(result, acc, superset_db_id, dataset_filter) ==
    IF result = <<>>
    THEN acc
    ELSE LET r           == Head(result)
             dataset_key == Key(r.schema, r.table_name)
         IN  IF ~passes(r, superset_db_id) \/ filtered_out(dataset_key, dataset_filter)
             THEN page_datasets(Tail(result), acc, superset_db_id, dataset_filter)
             ELSE page_datasets(Tail(result),
                      [datasets      |-> Append(acc.datasets,
                                                [id |-> r.id, key |-> dataset_key]),
                       datasets_keys |-> acc.datasets_keys \cup {dataset_key},
                       duplicate     |-> acc.duplicate
                                         \/ seen(dataset_key, acc.datasets_keys)],
                      superset_db_id, dataset_filter)

----------------------------------------------------------------------------
(* update_dbt_with_default_desc, get_tables_from_dbt *)

\* lines 93-105: the columns of one manifest table after the overlay
overlaid(manifest_table_columns, catalog_table_columns, default_column_descs) ==
    [c \in {cc \in catalog_table_columns :
                cc \notin DOMAIN manifest_table_columns /\ cc \in DOMAIN default_column_descs} |->
        [name |-> c, description |-> default_column_descs[c].desc, meta |-> EmptyDict,
         data_type |-> None, quote |-> None, tags |-> <<>>]]
    @@ manifest_table_columns

\* lines 80-107, for one table type: the catalog lists its tables under the
\* keys of the manifest
overlaid_subset(manifest_subset, catalog_subset, default_column_descs) ==
    [k \in DOMAIN manifest_subset |->
        IF k \in DOMAIN catalog_subset
        THEN [manifest_subset[k] EXCEPT !.columns =
                overlaid(manifest_subset[k].columns, catalog_subset[k].columns,
                         default_column_descs)]
        ELSE manifest_subset[k]]

update_dbt_with_default_desc(dbt_manifest, dbt_catalog, defaults) ==
    LET default_column_descs == Get(defaults, "columns", EmptyDict)
    IN  [nodes   |-> overlaid_subset(dbt_manifest.nodes, dbt_catalog.nodes,
                                     default_column_descs),
         sources |-> overlaid_subset(dbt_manifest.sources, dbt_catalog.sources,
                                     default_column_descs)]

\* the database test applied to every entry
in_database_any(database, dbt_db_name) == TRUE

\* line 126
in_database(database, dbt_db_name) == dbt_db_name = None \/ database = dbt_db_name

\* lines 116-134: the entries of the manifest, in order.  duplicate tells that
\* the assert of line 128 failed at one of them.
RECURSIVE tables_from(_, _, _)

tables_from(entries, acc, dbt_db_name) ==
    IF entries = <<>>
    THEN acc
    ELSE LET table           == Head(entries)
             table_key_short == Key(table.schema, table.name)
         IN  IF in_database(table.database, dbt_db_name)
             THEN tables_from(Tail(entries),
                      [tables    |-> Updated(acc.tables,
                                        table_key_short :>
                                            [columns     |-> table.columns,
                                             description |-> table.description]),
                       duplicate |-> acc.duplicate
                                     \/ table_key_short \in DOMAIN acc.tables],
                      dbt_db_name)
             ELSE tables_from(Tail(entries), acc, dbt_db_name)

\* lines 111-138: 'nodes', then 'sources'
get_tables_from_dbt(dbt_manifest, dbt_db_name) ==
    tables_from(dbt_manifest.nodes \o dbt_manifest.sources,
                [tables |-> EmptyDict, duplicate |-> FALSE], dbt_db_name)

\* every fetched dataset kept, with a dbt table or without
dbt_filtered_all(datasets, tables) == datasets

\* the matched list in the opposite order
dbt_filtered_reversed(datasets, tables) ==
    LET kept == SelectSeq(datasets, LAMBDA d : d.key \in DOMAIN tables)
    IN  [i \in 1..Len(kept) |-> kept[Len(kept) + 1 - i]]

\* line 321: sst_datasets_dbt_filtered
dbt_filtered(datasets, tables) ==
    SelectSeq(datasets, LAMBDA d : d.key \in DOMAIN tables)

----------------------------------------------------------------------------
(* The remote's listing, the dbt manifest and the dbt catalog of the runs *)

\* one record of GET /dataset/
Record(id, kind, db, schema, name) ==
    [id |-> id, kind |-> kind, database |-> [id |-> DbId(db)], schema |-> schema,
     table_name |-> name]

\* the remote's pages: n records each, the last one what is left
RECURSIVE Chunks(_, _)

Chunks(records, n) ==
    IF records = <<>>
    THEN <<>>
    ELSE IF Len(records) <= n
         THEN <<records>>
         ELSE <<SubSeq(records, 1, n)>> \o Chunks(SubSeq(records, n + 1, Len(records)), n)

\* the listing of the runs: the datasets MaxDatasets..1 of database 1; before
\* them a virtual dataset, after them a dataset of database 2 with the key of
\* dataset 1, a dataset dbt has no table for and a dataset of another schema
Listed ==
    Chunks(<<Record(MaxDatasets + 1, "virtual", 1, "sales", TableNames[1])>>
           \o [i \in 1..MaxDatasets |->
                 Record(MaxDatasets + 1 - i, "physical", 1, "sales",
                        TableNames[MaxDatasets + 1 - i])]
           \o <<Record(MaxDatasets + 2, "physical", 2, "sales", TableNames[1]),
                Record(MaxDatasets + 3, "physical", 1, "sales", TableNames[MaxDatasets + 1]),
                Record(MaxDatasets + 4, "physical", 1, "tmp", TableNames[1])>>,
           2)

\* listings get_datasets_from_superset gives up on: no dataset at all, none
\* that passes the filters, two of one key
BadListings ==
    {<<>>,
     <<<<Record(1, "virtual", 1, "sales", TableNames[1]),
         Record(2, "physical", 2, "sales", TableNames[2])>>>>,
     <<<<Record(1, "physical", 1, "sales", TableNames[1])>>,
       <<Record(2, "physical", 1, "sales", TableNames[2]),
         Record(MaxDatasets + 3, "physical", 1, "sales", TableNames[1])>>>>}

\* one entry of the manifest: a model or a source
Table(name, schema, database, t) ==
    [name |-> name, schema |-> schema, database |-> database, columns |-> t.columns,
     description |-> t.description]

Analytics == <<"analytics">>
Staging == <<"staging">>

\* the tables of the datasets ids, in that order
TablesOf(first, ids) ==
    [j \in 1..Len(ids) |->
        Table(TableNames[ids[j]], "sales", Analytics, ScenarioOf(first, ids[j]).table)]

\* the manifest of the runs: the odd datasets are models, the even ones
\* sources; database staging has a model with the key of dataset 1; there is
\* a source of another schema
ManifestOf(first) ==
    [nodes   |-> <<Table(TableNames[1], "sales", Staging, NoOp.table)>>
                 \o TablesOf(first, SelectSeq([i \in 1..MaxDatasets |-> i],
                                              LAMBDA i : i % 2 = 1)),
     sources |-> TablesOf(first, SelectSeq([i \in 1..MaxDatasets |-> i],
                                           LAMBDA i : i % 2 = 0))
                 \o <<Table(TableNames[1], "tmp", Analytics, NoOp.table)>>]

\* manifests get_tables_from_dbt gives up on: an empty one, one with no entry
\* of the database, one with a model and a source of one key
BadManifests ==
    {[nodes |-> <<>>, sources |-> <<>>],
     [nodes |-> <<Table(TableNames[1], "sales", Staging, NoOp.table)>>, sources |-> <<>>],
     [nodes   |-> <<Table(TableNames[1], "sales", Analytics, NoOp.table)>>,
      sources |-> <<Table(TableNames[2], "sales", Analytics, NoOp.table),
                    Table(TableNames[1], "sales", Analytics, EndToEnd.table)>>]}

\* the catalog of a manifest: every table, with the columns the database has
CatalogSubset(manifest_subset) ==
    [k \in DOMAIN manifest_subset |->
        [metadata |-> [name |-> manifest_subset[k].name],
         columns  |-> DOMAIN manifest_subset[k].columns \cup {"amount", "added"}]]

CatalogOf(dbt_manifest) ==
    [nodes |-> CatalogSubset(dbt_manifest.nodes),
     sources |-> CatalogSubset(dbt_manifest.sources)]

\* main's username and password arguments
Username == <<"u">>
Password == <<"p">>

----------------------------------------------------------------------------
(* main *)

RefreshToken == <<"refresh", 1>>

\* no request made yet
NoCall ==
    [sends |-> <<>>, raised |-> FALSE, refresh_token_if_needed |-> FALSE,
     before |-> None, after |-> None]

\* the outcomes of superset.request(method, endpoint, **kwargs) now: one for
\* each way the remote can answer
Calls(method, endpoint, kwargs) ==
    {request(access_token, refresh_token, method, endpoint, TRUE, EmptyDict,
             kwargs, res1, refreshed, res2) :
        res1 \in Responses, refreshed \in RefreshResponses(issued), res2 \in Responses}

\* a PUT is among the requests sent
Mutating(sends) == \E i \in 1..Len(sends) : sends[i].method = "PUT"

\* what a call leaves behind in the session and at the remote
After(c) ==
    /\ call' = [sends |-> c.sends, raised |-> c.raised, refresh_token_if_needed |-> TRUE,
                before |-> access_token, after |-> c.access_token]
    /\ access_token' = c.access_token
    /\ issued' = IF c.access_token # access_token THEN issued + 1 ELSE issued
    /\ remote' = ServeAll(remote, c.sends)
    /\ mutated' = (mutated \/ Mutating(c.sends))

\* pause_after_update left out
Paused_never(l) == l

\* pause_after_update
Paused(l) == IF cfg.pause # 0 THEN Append(l, "pause") ELSE l

\* Except without the try: the HTTPError ends main
Except_uncaught(how) ==
    /\ outcome' = [outcome EXCEPT ![idx] = how]
    /\ pc' = "aborted"

\* lines 334-336: the HTTPError of the dataset is logged, the loop goes on
Except(how) ==
    /\ outcome' = [outcome EXCEPT ![idx] = how]
    /\ pc' = "next"

\* a collection taken for true whatever it holds
truthy_always(collection) == TRUE

\* lines 73, 136: assert datasets, assert tables (an empty list or dict is
\* false)
truthy(collection) == collection # <<>>

\* an assert that reports and lets main go on
Asserted_reported(cond, reason, onward) ==
    /\ pc' = onward
    /\ failure' = IF cond THEN failure ELSE reason

\* assert cond, reason: main ends there when cond is false
Asserted(cond, reason, onward) ==
    IF cond
    THEN pc' = onward /\ UNCHANGED failure
    ELSE pc' = "fatal" /\ failure' = reason

\* what main is given, and what the run before left
given == <<run, cfg, creds, listing, catalog, default_descriptions, previous>>

\* the session
session == <<access_token, refresh_token, issued>>

\* what get_datasets_from_superset works on and returns
fetch == <<fetcher, received, sst_datasets>>

\* the loop of lines 324-336
loop == <<idx, dataset, log, attempted, outcome>>

\* what the loop leaves alone
static == <<given, manifest, fetch, matched, dbt_tables, failure>>

\* main's arguments refresh_columns and pause; the filters of the runs
Configs ==
    [refresh_columns : BOOLEAN, pause : {0, DefaultPause}, superset_db_id : {DbId(1)},
     dataset_filter : {<<"sales">>}, dbt_db_name : {Analytics}]

\* main as it is entered, with nothing done yet
Entered ==
    /\ pc = "start"
    /\ run = 1
    /\ access_token = None
    /\ refresh_token = None
    /\ issued = 0
    /\ fetcher = [page_number |-> 0, datasets |-> <<>>, datasets_keys |-> {}]
    /\ received = <<>>
    /\ sst_datasets = <<>>
    /\ matched = <<>>
    /\ dbt_tables = EmptyDict
    /\ idx = 0
    /\ dataset = EmptyDict
    /\ call = NoCall
    /\ log = <<>>
    /\ attempted = <<>>
    /\ outcome = <<>>
    /\ previous = <<>>
    /\ failure = "none"
    /\ mutated = FALSE

\* a dbt project and a remote that go together, and both credentials
Sound ==
    /\ cfg \in Configs
    /\ creds = [username |-> Username, password |-> Password]
    /\ listing = Listed
    /\ default_descriptions \in DefaultsFiles
    /\ \E first \in 1..Len(Scenarios) :
        /\ remote = [i \in 1..(MaxDatasets + 4) |->
                        IF i <= MaxDatasets THEN ScenarioOf(first, i).remote
                                            ELSE EndToEnd.remote]
        /\ manifest = ManifestOf(first)

\* one thing amiss: a credential, the listing or the manifest
Unsound ==
    /\ cfg = [refresh_columns |-> TRUE, pause |-> DefaultPause, superset_db_id |-> DbId(1),
              dataset_filter |-> <<"sales">>, dbt_db_name |-> Analytics]
    /\ default_descriptions = EmptyDict
    /\ remote = [i \in 1..(MaxDatasets + 4) |->
                    IF i <= MaxDatasets THEN ScenarioOf(1, i).remote ELSE EndToEnd.remote]
    /\ \/ /\ creds \in [username : {None, Username}, password : {None, Password}]
                       \ {[username |-> Username, password |-> Password]}
          /\ listing = Listed
          /\ manifest = ManifestOf(1)
       \/ /\ creds = [username |-> Username, password |-> Password]
          /\ listing \in BadListings
          /\ manifest = ManifestOf(1)
       \/ /\ creds = [username |-> Username, password |-> Password]
          /\ listing = Listed
          /\ manifest \in BadManifests

Init ==
    /\ Entered
    /\ Sound \/ Unsound
    /\ catalog = CatalogOf(manifest)

\* lines 288-292: the assert's condition.  username is tested first; the name
\* superset_refresh_token is not defined, so its test raises NameError.
CheckCredentials ==
    /\ pc = "start"
    /\ Asserted(creds.username # None, "NameError", "login")
    /\ UNCHANGED <<given, session, remote, manifest, fetch, matched, dbt_tables, loop,
                   call, mutated>>

\* line 296: Superset(...), that is _login
Login ==
    /\ pc = "login"
    /\ \E res1 \in Responses, held \in {None, RefreshToken} :
        LET c == request(access_token, refresh_token, "POST", LoginEndpoint, FALSE,
                         EmptyDict,
                         [json |-> [username |-> creds.username,
                                    password |-> creds.password,
                                    provider |-> "db", refresh |-> TRUE]],
                         res1, res1, res1)
        IN  /\ call' = [sends |-> c.sends, raised |-> c.raised,
                         refresh_token_if_needed |-> FALSE,
                         before |-> access_token, after |-> c.access_token]
            /\ IF c.raised
               THEN /\ pc' = "aborted"
                    /\ UNCHANGED <<access_token, refresh_token, issued>>
               ELSE /\ pc' = "fetch"
                    /\ access_token' = AccessToken(1)
                    /\ refresh_token' = held
                    /\ issued' = 1
    /\ UNCHANGED <<static, remote, loop, mutated>>

\* line 299: get_datasets_from_superset, one turn of its loop (lines 24-71)
\* and, on the empty page, lines 73-75
GetDatasets ==
    /\ pc = "fetch"
    /\ \E c \in Calls("GET", ListEndpoint, [params |-> ListPayload(fetcher.page_number)]) :
        /\ After(c)
        /\ IF c.raised
           THEN /\ pc' = "aborted"
                /\ UNCHANGED <<fetch, failure>>
           ELSE LET result == ListResult(listing, c.sends[Len(c.sends)])
                    taken  == page_datasets(result,
                                  [datasets      |-> fetcher.datasets,
                                   datasets_keys |-> fetcher.datasets_keys,
                                   duplicate     |-> FALSE],
                                  cfg.superset_db_id, cfg.dataset_filter)
                IN  /\ received' = Append(received, result)
                    /\ IF result # <<>>
                       THEN /\ Asserted(~taken.duplicate, "duplicate_dataset", "fetch")
                            /\ fetcher' = IF pc' = "fatal"
                                          THEN fetcher
                                          ELSE [page_number   |-> fetcher.page_number + 1,
                                                datasets      |-> taken.datasets,
                                                datasets_keys |-> taken.datasets_keys]
                            /\ UNCHANGED sst_datasets
                       ELSE /\ Asserted(truthy(fetcher.datasets), "no_datasets", "defaults")
                            /\ sst_datasets' = IF pc' = "fatal" THEN sst_datasets
                                                                ELSE fetcher.datasets
                            /\ UNCHANGED fetcher
    /\ UNCHANGED <<given, refresh_token, manifest, matched, dbt_tables, loop>>

\* lines 302-316: the manifest is read; with a defaults file the catalog's
\* columns are added to it and it is written back
LoadDefaults ==
    /\ pc = "defaults"
    /\ manifest' = IF default_descriptions # EmptyDict
                   THEN update_dbt_with_default_desc(manifest, catalog, default_descriptions)
                   ELSE manifest
    /\ pc' = "tables"
    /\ UNCHANGED <<given, session, remote, fetch, matched, dbt_tables, loop, call,
                   failure, mutated>>

\* line 319: get_tables_from_dbt
GetTables ==
    /\ pc = "tables"
    /\ LET loaded == get_tables_from_dbt(manifest, cfg.dbt_db_name)
       IN  /\ Asserted(~loaded.duplicate /\ truthy(loaded.tables),
                       IF loaded.duplicate THEN "duplicate_table" ELSE "empty_manifest",
                       "match")
           /\ dbt_tables' = IF pc' = "fatal" THEN dbt_tables ELSE loaded.tables
    /\ UNCHANGED <<given, session, remote, manifest, fetch, matched, loop, call, mutated>>

\* line 321: the datasets dbt has a table for
MatchDatasets ==
    /\ pc = "match"
    /\ matched' = dbt_filtered(sst_datasets, dbt_tables)
    /\ outcome' = [i \in 1..Len(matched') |-> "pending"]
    /\ pc' = "next"
    /\ UNCHANGED <<given, session, remote, manifest, fetch, dbt_tables, idx, dataset, log,
                   attempted, call, failure, mutated>>

\* lines 324-326, 338: the next dataset of the matched list, or the end
NextDataset ==
    /\ pc = "next"
    /\ IF idx < Len(matched)
       THEN /\ idx' = idx + 1
            /\ dataset' = matched[idx + 1]
            /\ attempted' = Append(attempted, matched[idx + 1].id)
            /\ pc' = IF cfg.refresh_columns THEN "refresh" ELSE "read"
       ELSE /\ pc' = "done"
            /\ UNCHANGED <<idx, dataset, attempted>>
    /\ log' = <<>>
    /\ call' = NoCall
    /\ UNCHANGED <<static, session, remote, outcome, mutated>>

\* lines 328-330: refresh_columns_in_superset, pause_after_update
RefreshColumns ==
    /\ pc = "refresh"
    /\ \E c \in Calls("PUT", RefreshEndpoint(dataset.id), NoKwargs) :
        /\ After(c)
        /\ IF c.raised
           THEN /\ Except("error")
                /\ log' = Append(log, "refresh")
           ELSE /\ pc' = "read"
                /\ log' = Paused(Append(log, "refresh"))
                /\ UNCHANGED outcome
    /\ UNCHANGED <<static, refresh_token, idx, dataset, attempted>>

\* line 331: add_superset_columns
AddColumns ==
    /\ pc = "read"
    /\ \E c \in Calls("GET", DatasetEndpoint(dataset.id), NoKwargs) :
        /\ After(c)
        /\ log' = Append(log, "read")
        /\ IF c.raised
           THEN /\ Except("error")
                /\ UNCHANGED dataset
           ELSE /\ pc' = "merge"
                /\ dataset' = Updated(dataset,
                        [columns     |-> remote[dataset.id].columns,
                         description |-> remote[dataset.id].description,
                         owners      |-> remote[dataset.id].owners])
                /\ UNCHANGED outcome
    /\ UNCHANGED <<static, refresh_token, idx, attempted>>

\* line 332: merge_columns_info
MergeColumnsInfo ==
    /\ pc = "merge"
    /\ dataset' = merge_columns_info(dataset, dbt_tables, default_descriptions)
    /\ pc' = "put"
    /\ UNCHANGED <<static, session, remote, idx, call, log, attempted, outcome, mutated>>

\* the PUT's body reached the remote in a request the remote accepted
Delivered(c) ==
    \E i \in 1..Len(c.sends) :
        c.sends[i].method = "PUT" /\ c.sends[i].status < 400 /\ "json" \in DOMAIN c.sends[i].kwargs

\* line 333: put_descriptions_to_superset
PutDescriptions ==
    /\ pc = "put"
    /\ IF needs_put(dataset)
       THEN \E c \in Calls("PUT", WriteEndpoint(dataset.id),
                           [json |-> payload(dataset)]) :
                /\ After(c)
                /\ IF c.raised
                   THEN /\ Except("write_failed")
                        /\ log' = Append(log, "write")
                   ELSE /\ outcome' = [outcome EXCEPT ![idx] =
                                IF Delivered(c) THEN "stored" ELSE "unstored"]
                        /\ pc' = "next"
                        /\ log' = Paused(Append(log, "write"))
       ELSE /\ outcome' = [outcome EXCEPT ![idx] = "skipped"]
            /\ pc' = "next"
            /\ UNCHANGED <<access_token, issued, remote, call, log, mutated>>
    /\ UNCHANGED <<static, refresh_token, idx, dataset, attempted>>

\* push_descriptions is invoked again: a new process, the same arguments and
\* dbt project, the remote and the manifest as the run before left them
Rerun ==
    /\ pc \in {"done", "aborted"}
    /\ run < MaxRuns
    /\ run' = run + 1
    /\ pc' = "start"
    /\ access_token' = None
    /\ refresh_token' = None
    /\ issued' = 0
    /\ fetcher' = [page_number |-> 0, datasets |-> <<>>, datasets_keys |-> {}]
    /\ received' = <<>>
    /\ sst_datasets' = <<>>
    /\ matched' = <<>>
    /\ dbt_tables' = EmptyDict
    /\ idx' = 0
    /\ dataset' = EmptyDict
    /\ call' = NoCall
    /\ log' = <<>>
    /\ attempted' = <<>>
    /\ previous' = [i \in DOMAIN outcome |->
                        IF outcome[i] \in {"stored", "skipped"} THEN outcome[i] ELSE "other"]
    /\ outcome' = <<>>
    /\ failure' = "none"
    /\ mutated' = FALSE
    /\ UNCHANGED <<cfg, creds, listing, manifest, catalog, default_descriptions, remote>>

Next ==
    \/ CheckCredentials
    \/ Login
    \/ GetDatasets
    \/ LoadDefaults
    \/ GetTables
    \/ MatchDatasets
    \/ NextDataset
    \/ RefreshColumns
    \/ AddColumns
    \/ MergeColumnsInfo
    \/ PutDescriptions

\* one invocation of main
Spec == Init /\ [][Next]_vars

\* invocations of main one after the other, on a dbt project and a remote that
\* go together
InitRerun ==
    /\ Entered
    /\ Sound
    /\ cfg.pause = DefaultPause
    /\ catalog = CatalogOf(manifest)

NextRerun ==
    \/ Next
    \/ Rerun

SpecRerun == InitRerun /\ [][NextRerun]_vars

----------------------------------------------------------------------------
(* merge_columns_info on its own: main at line 332, for one dataset with any
   columns, any dbt table and any defaults file *)

ColumnNames == {"amount", "ratio"}

\* the columns GET /dataset/{id} can return: one to MaxCols of them
ColumnLists ==
    UNION {
        {[i \in 1..n |-> [id |-> i, column_name |-> c[i].column_name,
                          description |-> c[i].description,
                          expression |-> c[i].expression]] :
            c \in [1..n -> [column_name : ColumnNames,
                            description : {<<>>, Old},
                            expression : {None, <<>>, <<"a/b">>}]]} :
        n \in 1..MaxCols}

\* the columns of a dbt table: "amount" absent, without a description, with
\* an empty or a markdown one; "ratio" absent or described
DbtColumns ==
    {a @@ r :
        a \in {EmptyDict, [amount |-> [name |-> "amount"]],
               [amount |-> [description |-> <<>>]],
               [amount |-> [description |-> OrderAmount]]},
        r \in {EmptyDict, [ratio |-> [description |-> OrdersMd]]}}

\* dbt_tables: the table with the dataset's key (main merges matched datasets
\* only, line 321)
DbtTables ==
    {[k \in {KeyOf(1)} |-> [columns |-> c, description |-> d]] :
        c \in DbtColumns, d \in {None, <<>>, OrdersMd}}

\* default descriptions: no file, or a file with entries
DefaultsInputs ==
    {EmptyDict, [columns |-> [amount |-> [note |-> <<"n">>]]]}
    \cup {[columns |-> a @@ r] :
            a \in {EmptyDict, [amount |-> [desc |-> DefaultAmount]]},
            r \in {EmptyDict, [ratio |-> [desc |-> <<"default">>]]}}

InitMerge ==
    /\ pc = "merge"
    /\ run = 1
    /\ cfg = [refresh_columns |-> FALSE, pause |-> DefaultPause, superset_db_id |-> None,
              dataset_filter |-> None, dbt_db_name |-> None]
    /\ creds = [username |-> Username, password |-> Password]
    /\ access_token = AccessToken(1)
    /\ refresh_token = RefreshToken
    /\ issued = 1
    /\ dbt_tables \in DbtTables
    /\ default_descriptions \in DefaultsInputs
    /\ listing = <<<<Record(1, "physical", 1, "sales", TableNames[1])>>>>
    /\ manifest = [nodes |-> <<Table(TableNames[1], "sales", Analytics, dbt_tables[KeyOf(1)])>>,
                   sources |-> <<>>]
    /\ catalog = [nodes |-> EmptyDict, sources |-> EmptyDict]
    /\ fetcher = [page_number |-> 1, datasets |-> <<[id |-> 1, key |-> KeyOf(1)]>>,
                  datasets_keys |-> {KeyOf(1)}]
    /\ received = <<listing[1], <<>>>>
    /\ sst_datasets = fetcher.datasets
    /\ matched = <<[id |-> 1, key |-> KeyOf(1)]>>
    /\ failure = "none"
    /\ mutated = FALSE
    /\ idx = 1
    /\ \E columns \in ColumnLists,
          d \in {[description |-> None, owners |-> <<>>],
                 [description |-> Old, owners |-> <<[id |-> 3], [id |-> 7]>>]} :
        /\ dataset = [id |-> 1, key |-> KeyOf(1), columns |-> columns,
                      description |-> d.description, owners |-> d.owners]
        /\ remote = <<[description |-> d.description, columns |-> columns,
                       owners |-> d.owners, stale |-> FALSE]>>
    /\ call = NoCall
    /\ log = <<"read">>
    /\ attempted = <<1>>
    /\ outcome = <<"pending">>
    /\ previous = <<"none">>

SpecMerge == InitMerge /\ [][MergeColumnsInfo]_vars

----------------------------------------------------------------------------
(* Properties of merge_columns_info, read off the dataset main holds right
   after line 332 *)

Merged == pc = "put"

SourceColumns == Get(Get(dbt_tables, dataset.key, EmptyDict), "columns", EmptyDict)
SourceDescription == Get(Get(dbt_tables, dataset.key, EmptyDict), "description", None)
DefaultColumns == Get(default_descriptions, "columns", EmptyDict)

IsPhysical(col) == col.expression \in {None, <<>>}
HasSource(col) ==
    /\ col.column_name \in DOMAIN SourceColumns
    /\ "description" \in DOMAIN SourceColumns[col.column_name]
HasDefault(col) ==
    /\ col.column_name \in DOMAIN DefaultColumns
    /\ "desc" \in DOMAIN DefaultColumns[col.column_name]
SourceText(col) ==
    convert_markdown_to_plain_text(SourceColumns[col.column_name].description)
DefaultText(col) ==
    convert_markdown_to_plain_text(DefaultColumns[col.column_name].desc)
Columns == 1..Len(dataset.columns)

\* C7: the merged description of a physical column is the plain text of the
\* dbt description of that column name when dbt declares one, else the plain
\* text of the default for that name when there is one, else the column's
\* current description; with both a dbt and a default description the result
\* is the dbt one.
C7_ColumnPrecedence ==
    Merged =>
        \A i \in Columns :
            LET col == dataset.columns[i]
                new == dataset.columns_new[i].description
            IN  IsPhysical(col) =>
                    /\ HasSource(col) => new = SourceText(col)
                    /\ ~HasSource(col) /\ HasDefault(col) => new = DefaultText(col)
                    /\ ~HasSource(col) /\ ~HasDefault(col) => new = col.description

\* a physical column with a dbt description and a different default, merged
C7_Witness ==
    /\ Merged
    /\ \E i \in Columns :
        LET col == dataset.columns[i]
        IN  /\ IsPhysical(col) /\ HasSource(col) /\ HasDefault(col)
            /\ SourceText(col) # DefaultText(col)
            /\ SourceText(col) # col.description
            /\ dataset.columns_new[i].description = SourceText(col)

\* C8, as claimed: a physical column whose current description is not empty
\* and that dbt does not describe keeps its current description, whatever
\* the defaults hold.
C8_DefaultOnlyIfTargetEmpty ==
    Merged =>
        \A i \in Columns :
            LET col == dataset.columns[i]
            IN  IsPhysical(col) /\ ~HasSource(col) /\ col.description \notin {None, <<>>}
                    => dataset.columns_new[i].description = col.description

\* C8, amended: a default is used for a physical column exactly when dbt
\* declares no description for it and the defaults hold one for its name,
\* and then it replaces the column's current description, empty or not; in
\* every other case the merged description is the dbt one or the current one.
C8_DefaultOnlyIfNoSource ==
    Merged =>
        \A i \in Columns :
            LET col == dataset.columns[i]
                new == dataset.columns_new[i].description
            IN  IF IsPhysical(col) /\ ~HasSource(col) /\ HasDefault(col)
                THEN new = DefaultText(col)
                ELSE new = (IF IsPhysical(col) /\ HasSource(col) THEN SourceText(col)
                            ELSE col.description)

\* a described physical column without a dbt description takes the default
C8_Witness ==
    /\ Merged
    /\ \E i \in Columns :
        LET col == dataset.columns[i]
        IN  /\ IsPhysical(col) /\ ~HasSource(col) /\ HasDefault(col)
            /\ col.description \notin {None, <<>>}
            /\ dataset.columns_new[i].description = DefaultText(col)
            /\ DefaultText(col) # col.description

\* C9: a column with a non-empty expression keeps its current description in
\* columns_new whatever dbt and the defaults hold for its name, and merge
\* keeps the id and the name of every column and the length and the order of
\* the column list.
C9_ComputedColumnImmunity ==
    Merged =>
        /\ Len(dataset.columns_new) = Len(dataset.columns)
        /\ \A i \in Columns :
            /\ dataset.columns_new[i].id = dataset.columns[i].id
            /\ dataset.columns_new[i].column_name = dataset.columns[i].column_name
            /\ DOMAIN dataset.columns_new[i] = {"column_name", "id", "description"}
            /\ ~IsPhysical(dataset.columns[i]) =>
                   dataset.columns_new[i].description = dataset.columns[i].description

\* a computed column that dbt and the defaults both describe, next to a
\* physical one that merge did change
C9_Witness ==
    /\ Merged
    /\ \E i, j \in Columns :
        LET col == dataset.columns[i]
        IN  /\ ~IsPhysical(col) /\ HasSource(col) /\ HasDefault(col)
            /\ SourceText(col) # col.description
            /\ dataset.columns_new[i].description = col.description
            /\ IsPhysical(dataset.columns[j])
            /\ dataset.columns_new[j].description # dataset.columns[j].description

\* C10: description_new is the dataset's current description when the dbt
\* table has no description (none, or an empty one), and the plain text of
\* the dbt description otherwise.
C10_DatasetDescription ==
    Merged =>
        dataset.description_new =
            IF SourceDescription \in {None, <<>>}
            THEN dataset.description
            ELSE convert_markdown_to_plain_text(SourceDescription)

----------------------------------------------------------------------------
(* Properties of the session and of the loop of main *)

\* the requests of the last call of Superset.request other than the refresh
\* exchange, and the refresh exchanges
OriginalSends == SelectSeq(call.sends, LAMBDA s : s.endpoint # RefreshTokenEndpoint)
Exchanges == SelectSeq(call.sends, LAMBDA s : s.endpoint = RefreshTokenEndpoint)
Expired(s) == s.status = 401 /\ s.msg = "Token has expired"

\* C1: a call of request with refresh enabled sends the request at most
\* twice and the refresh exchange at most once; when the first answer is a
\* 401 with the expiry marker and the exchange succeeds the request is sent
\* once more, right after the exchange, and if the second answer is an error
\* too the call raises it, with nothing sent after it.
C1_BoundedRetry ==
    call.refresh_token_if_needed =>
        /\ Len(OriginalSends) \in 1..2
        /\ Len(Exchanges) <= 1
        /\ \A i \in 1..Len(OriginalSends) :
            /\ OriginalSends[i].method = OriginalSends[1].method
            /\ OriginalSends[i].endpoint = OriginalSends[1].endpoint
        /\ (Expired(call.sends[1]) /\ Len(Exchanges) = 1 /\ Exchanges[1].status < 400) =>
            /\ Len(call.sends) = 3
            /\ call.sends[2] = Exchanges[1]
            /\ call.sends[3] = OriginalSends[2]
            /\ call.sends[3].status >= 400 => call.raised
        /\ Len(OriginalSends) = 2 =>
            Expired(call.sends[1]) /\ Len(Exchanges) = 1 /\ Exchanges[1].status < 400

\* a request answered 401 expired, the exchange, the request again answered
\* with an error: raised
C1_Witness ==
    /\ call.refresh_token_if_needed
    /\ Len(call.sends) = 3
    /\ Expired(call.sends[1])
    /\ call.sends[2].endpoint = RefreshTokenEndpoint /\ call.sends[2].status = 200
    /\ call.sends[3].endpoint = call.sends[1].endpoint
    /\ Expired(call.sends[3])
    /\ call.raised

\* C2: the request sent again after a refresh is the request sent first:
\* the same method, URL, query parameters and JSON body.
C2_RetrySameRequest ==
    call.refresh_token_if_needed /\ Len(OriginalSends) = 2 =>
        /\ OriginalSends[2].method = OriginalSends[1].method
        /\ OriginalSends[2].endpoint = OriginalSends[1].endpoint
        /\ DOMAIN OriginalSends[2].kwargs = DOMAIN OriginalSends[1].kwargs
        /\ OriginalSends[2].kwargs = OriginalSends[1].kwargs

\* the PUT /dataset/{id}?override_columns=false requests of the last call
WriteSends ==
    SelectSeq(call.sends,
              LAMBDA s : Len(s.endpoint) = 3 /\ s.endpoint[3] = "?override_columns=false")

OwnerIds == [i \in 1..Len(dataset.owners) |-> dataset.owners[i].id]

\* C3: every write request that reaches the remote, one sent again after a
\* refresh included, carries the list of the ids of the dataset's current
\* owners as its owners field.
C3_WritesCarryOwners ==
    \A i \in 1..Len(WriteSends) :
        /\ "json" \in DOMAIN WriteSends[i].kwargs
        /\ WriteSends[i].kwargs.json.owners = OwnerIds

\* the outcomes in which put_descriptions_to_superset called the write
Wrote == {"stored", "unstored", "write_failed"}

\* C4: a dataset whose write the remote stored in the run before, or that
\* needed none, gets no write call in this run.
C4_Idempotent ==
    \A i \in 1..Len(matched) :
        run > 1 /\ i \in DOMAIN previous /\ previous[i] \in {"stored", "skipped"}
            => outcome[i] \notin Wrote

\* a dataset written in the first run and found up to date in the second
C4_Witness ==
    /\ run = 2
    /\ \E i \in DOMAIN previous \cap DOMAIN outcome :
        previous[i] = "stored" /\ outcome[i] = "skipped"

\* put_descriptions_to_superset has returned or raised for dataset idx
PutDone == pc = "next" /\ idx > 0 /\ outcome[idx] \in Wrote \cup {"skipped"}

AsSet(lst) == {lst[i] : i \in 1..Len(lst)}

\* the delta differs from the dataset's current state
Differs ==
    \/ dataset.description_new # dataset.description
    \/ AsSet(dataset.columns_new) #
           {[column_name |-> c.column_name, id |-> c.id, description |-> c.description] :
               c \in AsSet(dataset.columns)}
    \/ dataset.owners_new # OwnerIds

WriteCalls == Len(SelectSeq(log, LAMBDA e : e = "write"))

\* C5: the writer issues one write call if the delta differs from the
\* current state in the description, the columns (as sets) or the owners,
\* and otherwise no write call and no pause.
C5_WriteIffDiffers ==
    PutDone =>
        /\ WriteCalls = (IF Differs THEN 1 ELSE 0)
        /\ Differs <=> Len(WriteSends) >= 1
        /\ ~Differs => log[Len(log)] = "read" /\ outcome[idx] = "skipped"

\* the no-op dataset skipped and the dataset after it written, then paused
C5_Witness ==
    /\ PutDone
    /\ idx = 2
    /\ outcome[1] = "skipped"
    /\ Differs
    /\ SubSeq(log, Len(log) - 1, Len(log)) = <<"write", "pause">>

\* C6: an HTTP error in a dataset's refresh, read or write ends that
\* dataset's processing only: nothing more is done for it, main does not
\* abort, the datasets after it are taken up, and at the end every matched
\* dataset has been taken up once, in order.
C6_FailureIsolation ==
    /\ pc = "aborted" => idx = 0
    /\ attempted = [i \in 1..idx |-> matched[i].id]
    /\ \A i \in 1..Len(matched) : i < idx => outcome[i] # "pending"
    /\ pc = "next" /\ idx > 0 =>
        /\ call.raised <=> outcome[idx] \in {"error", "write_failed"}
        /\ call.raised => log[Len(log)] \in {"refresh", "read", "write"}
        /\ outcome[idx] = "error" => "columns_new" \notin DOMAIN dataset
    /\ pc = "done" =>
        /\ idx = Len(matched)
        /\ \A i \in 1..Len(matched) : outcome[i] # "pending"

\* the first dataset failed, the last one was written, main is at its end
C6_Witness ==
    /\ pc = "done"
    /\ outcome[1] = "error"
    /\ outcome[Len(matched)] = "stored"

----------------------------------------------------------------------------
(* get_datasets_from_superset on its own: main at line 299, logged in, for
   any listing of up to MaxRecords records in pages of any size, and any
   filters *)

\* the records a listing is made of: kind, database, table name
RecordKinds ==
    {<<"physical", 1, "orders">>, <<"physical", 1, "items">>,
     <<"physical", 2, "orders">>, <<"virtual", 1, "orders">>}

RecordLists ==
    UNION {{[i \in 1..n |-> Record(i, k[i][1], k[i][2], "sales", k[i][3])] :
                k \in [1..n -> RecordKinds]} : n \in 0..MaxRecords}

Listings == {Chunks(records, n) : records \in RecordLists, n \in 1..MaxRecords}

InitFetch ==
    /\ pc = "fetch"
    /\ run = 1
    /\ cfg \in [refresh_columns : {FALSE}, pause : {DefaultPause},
                superset_db_id : {None, DbId(1)}, dataset_filter : {None, <<>>, <<"orders">>},
                dbt_db_name : {Analytics}]
    /\ creds = [username |-> Username, password |-> Password]
    /\ access_token = AccessToken(1)
    /\ refresh_token = RefreshToken
    /\ issued = 1
    /\ listing \in Listings
    /\ remote = [i \in 1..MaxRecords |-> NoOp.remote]
    /\ manifest = ManifestOf(1)
    /\ catalog = CatalogOf(manifest)
    /\ default_descriptions = EmptyDict
    /\ fetcher = [page_number |-> 0, datasets |-> <<>>, datasets_keys |-> {}]
    /\ received = <<>>
    /\ sst_datasets = <<>>
    /\ matched = <<>>
    /\ dbt_tables = EmptyDict
    /\ idx = 0
    /\ dataset = EmptyDict
    /\ call = NoCall
    /\ log = <<>>
    /\ attempted = <<>>
    /\ outcome = <<>>
    /\ previous = <<>>
    /\ failure = "none"
    /\ mutated = FALSE

SpecFetch == InitFetch /\ [][GetDatasets]_vars

----------------------------------------------------------------------------
(* get_tables_from_dbt on its own: main at line 319, for any manifest of up
   to MaxEntries models and sources, with and without the database filter *)

\* the entries a manifest is made of: table name, database
EntryKinds ==
    {<<"orders", Analytics>>, <<"items", Analytics>>, <<"orders", Staging>>,
     <<"items", Staging>>}

\* the entries k of one table type; each has a description of its own
EntriesOf(table_type, k) ==
    [i \in 1..Len(k) |->
        Table(k[i][1], "sales", k[i][2],
              [columns |-> EmptyDict, description |-> <<table_type, TableNames[i]>>])]

Manifests ==
    UNION {UNION {{[nodes |-> EntriesOf("nodes", n), sources |-> EntriesOf("sources", s)] :
                        n \in [1..nn -> EntryKinds], s \in [1..ns -> EntryKinds]} :
                    nn \in 0..(MaxEntries - ns)} :
            ns \in 0..MaxEntries}

InitLoad ==
    /\ pc = "tables"
    /\ run = 1
    /\ cfg \in [refresh_columns : {FALSE}, pause : {DefaultPause}, superset_db_id : {None},
                dataset_filter : {None}, dbt_db_name : {None, Analytics}]
    /\ creds = [username |-> Username, password |-> Password]
    /\ access_token = AccessToken(1)
    /\ refresh_token = RefreshToken
    /\ issued = 1
    /\ listing = <<<<Record(1, "physical", 1, "sales", TableNames[1])>>>>
    /\ remote = <<NoOp.remote>>
    /\ manifest \in Manifests
    /\ catalog = CatalogOf(manifest)
    /\ default_descriptions = EmptyDict
    /\ fetcher = [page_number |-> 1, datasets |-> <<[id |-> 1, key |-> KeyOf(1)]>>,
                  datasets_keys |-> {KeyOf(1)}]
    /\ received = <<listing[1], <<>>>>
    /\ sst_datasets = fetcher.datasets
    /\ matched = <<>>
    /\ dbt_tables = EmptyDict
    /\ idx = 0
    /\ dataset = EmptyDict
    /\ call = NoCall
    /\ log = <<>>
    /\ attempted = <<>>
    /\ outcome = <<>>
    /\ previous = <<>>
    /\ failure = "none"
    /\ mutated = FALSE

SpecLoad == InitLoad /\ [][GetTables]_vars

----------------------------------------------------------------------------
(* Properties of get_datasets_from_superset, read off the call it made last,
   the pages it was answered and what it returned *)

\* the requests of the last call that went to GET /dataset/
ListSends == SelectSeq(call.sends, LAMBDA s : s.endpoint = ListEndpoint)

\* the records of pages, page after page
RECURSIVE Flat(_)

Flat(pages) == IF pages = <<>> THEN <<>> ELSE Head(pages) \o Flat(Tail(pages))

\* a record the filters of the run let through
Wanted(r) ==
    /\ r.kind = "physical"
    /\ cfg.superset_db_id = None \/ r.database.id = cfg.superset_db_id
    /\ cfg.dataset_filter \in {None, <<>>}
       \/ Contains(Key(r.schema, r.table_name), cfg.dataset_filter)

\* the datasets of the records the filters let through, in the records' order
WantedOf(records) ==
    LET w == SelectSeq(records, Wanted)
    IN  [i \in 1..Len(w) |-> [id |-> w[i].id, key |-> Key(w[i].schema, w[i].table_name)]]

\* get_datasets_from_superset has returned
Fetched == pc = "defaults"

\* C11: the k-th call of the fetch asks for page k-1 with page size 100 in
\* every request it sends; the fetch ends at the first empty page, having
\* been answered each page before it once; what it returns are
\* the records of the pages before it that are physical, of the database asked
\* for and with the substring asked for, in page-then-record order, with the
\* key schema.table_name
C11_Pagination ==
    /\ call.sends # <<>> =>
        \A i \in 1..Len(ListSends) :
            ListSends[i].kwargs =
                [params |-> [q |-> [page |-> IF call.raised THEN Len(received)
                                                            ELSE Len(received) - 1,
                                    page_size |-> PageSize]]]
    /\ Fetched =>
        /\ received = listing \o <<<<>>>>
        /\ sst_datasets = WantedOf(Flat(listing))

\* the datasets of the records the fetch has been answered so far that the
\* filters let through
ReceivedWanted == WantedOf(Flat(received))

\* no two of the datasets have one key
Distinct(datasets) ==
    \A i, j \in 1..Len(datasets) : datasets[i].key = datasets[j].key => i = j

----------------------------------------------------------------------------
(* Properties of get_tables_from_dbt, read off the manifest and what main
   holds after the call *)

\* the manifest's entries, the models before the sources
Entries == manifest.nodes \o manifest.sources

\* the entries of the database asked for
ScopedEntries ==
    SelectSeq(Entries, LAMBDA e : cfg.dbt_db_name = None \/ e.database = cfg.dbt_db_name)

\* two entries of the database asked for have one key
Clash ==
    \E i, j \in 1..Len(ScopedEntries) :
        /\ i # j
        /\ Key(ScopedEntries[i].schema, ScopedEntries[i].name)
              = Key(ScopedEntries[j].schema, ScopedEntries[j].name)

\* C13: get_tables_from_dbt fails with the duplicate-key assert exactly when
\* two entries of the database asked for, models or sources, have one
\* schema.name key; entries of other databases never make it fail; the
\* mapping it returns has, for each key, the table of the one entry of that key
C13_SourceUniqueness ==
    pc # "tables" =>
        /\ Clash <=> failure = "duplicate_table"
        /\ failure = "duplicate_table" => pc = "fatal" /\ dbt_tables = EmptyDict
        /\ pc = "match" =>
            /\ DOMAIN dbt_tables =
                  {Key(ScopedEntries[i].schema, ScopedEntries[i].name) :
                      i \in 1..Len(ScopedEntries)}
            /\ \A i \in 1..Len(ScopedEntries) :
                  dbt_tables[Key(ScopedEntries[i].schema, ScopedEntries[i].name)]
                      = [columns     |-> ScopedEntries[i].columns,
                         description |-> ScopedEntries[i].description]

\* a model and a source of one key, the model in another database: the
\* tables are loaded, the source's among them
C13_Witness ==
    /\ pc = "match"
    /\ \E n \in 1..Len(manifest.nodes), s \in 1..Len(manifest.sources) :
        /\ Key(manifest.nodes[n].schema, manifest.nodes[n].name)
              = Key(manifest.sources[s].schema, manifest.sources[s].name)
        /\ manifest.nodes[n].database # cfg.dbt_db_name
        /\ manifest.sources[s].database = cfg.dbt_db_name
        /\ dbt_tables[Key(manifest.sources[s].schema, manifest.sources[s].name)].description
              = manifest.sources[s].description

----------------------------------------------------------------------------
(* Properties of main before the loop *)

\* C14: a run that has ended at one of main's asserts (the credentials, a
\* duplicate key or an empty collection of the fetch or of the tables) has
\* sent no PUT, neither a column refresh nor a write, and has taken up no
\* dataset
C14_FatalBeforeWrites ==
    pc = "fatal" \/ failure # "none" =>
        /\ ~mutated
        /\ ~Mutating(call.sends)
        /\ attempted = <<>>

\* the manifest has two tables of one key: main has logged in and fetched the
\* datasets, and has ended at the assert
C14_Witness ==
    /\ pc = "fatal"
    /\ failure = "duplicate_table"
    /\ sst_datasets # <<>>
    /\ call.sends # <<>>

\* the last of a non-empty sequence
Last(seq) == seq[Len(seq)]

\* get_tables_from_dbt has been called, and has returned or failed
TablesCalled == sst_datasets # <<>> /\ pc \notin {"defaults", "tables"}

\* C15: the fetch fails with the no-data assert exactly when its loop ends
\* (on the empty page, be it the first) with no record having passed the
\* filters, and get_tables_from_dbt fails with the empty-manifest assert
\* exactly when no entry is of the database asked for; main never holds an
\* empty collection of datasets or of tables after the call
C15_EmptyIsFatal ==
    /\ (received # <<>> /\ Last(received) = <<>> /\ ReceivedWanted = <<>>)
          <=> failure = "no_datasets"
    /\ failure = "no_datasets" => pc = "fatal" /\ sst_datasets = <<>>
    /\ pc \in {"defaults", "tables"} \/ TablesCalled => sst_datasets # <<>>
    /\ (TablesCalled /\ ScopedEntries = <<>>) <=> failure = "empty_manifest"
    /\ failure = "empty_manifest" => pc = "fatal" /\ dbt_tables = EmptyDict
    /\ TablesCalled /\ pc # "fatal" => dbt_tables # EmptyDict

\* the fetch has returned datasets; the manifest has entries, none of the
\* database asked for: main has ended at the assert of line 136
C15_Witness ==
    /\ failure = "empty_manifest"
    /\ Entries # <<>>
    /\ sst_datasets # <<>>

\* C16: main goes on to the login only with a username and a password; with
\* either of them missing it ends at its first assert and no request, the
\* login included, is sent
C16_CredentialsRequired ==
    creds.username = None \/ creds.password = None =>
        /\ pc \in {"start", "fatal"}
        /\ call.sends = <<>>

----------------------------------------------------------------------------
(* Properties of Superset.request's refresh, read off the last call *)

C18_NoRefreshToken ==
    (call.sends # <<>> /\ call.refresh_token_if_needed /\ refresh_token = None
        /\ Expired(call.sends[1])) =>
            /\ Len(call.sends) = 1
            /\ call.raised
            /\ call.after = call.before
            /\ access_token = call.before

\* the login returned no refresh token; a request of the loop was answered
\* 401 'Token has expired' and raised
C18_Witness ==
    /\ call.refresh_token_if_needed
    /\ refresh_token = None
    /\ access_token # None
    /\ Len(call.sends) = 1
    /\ Expired(call.sends[1])
    /\ call.raised
    /\ idx > 0

----------------------------------------------------------------------------
(* Properties of the loop's order, read off the log of the dataset in hand *)

\* the pause, when main is given one
Pause == IF cfg.pause # 0 THEN <<"pause">> ELSE <<>>

\* what comes before the read
BeforeRead == IF cfg.refresh_columns THEN <<"refresh">> \o Pause ELSE <<>>

\* the remote calls and pauses of a dataset that is refreshed, read and written
AllSteps == BeforeRead \o <<"read">> \o <<"write">> \o Pause

\* C19: with refresh_columns the refresh is the dataset's first call, the
\* pause follows it and the read comes after both, so that what is merged
\* and compared is the dataset as the remote has it after the refresh;
\* without refresh_columns no refresh is sent; a write that succeeded is
\* followed by the pause before main goes on, a write that failed or was not
\* due is followed by none
C19_StepOrder ==
    idx > 0 =>
        /\ Len(log) <= Len(AllSteps)
        /\ log = SubSeq(AllSteps, 1, Len(log))
        /\ ~cfg.refresh_columns =>
            \A i \in 1..Len(call.sends) : call.sends[i].endpoint # RefreshEndpoint(dataset.id)
        /\ pc = "read" => log = BeforeRead
        /\ pc \in {"merge", "put"} =>
            /\ log = BeforeRead \o <<"read">>
            /\ dataset.columns = remote[dataset.id].columns
            /\ dataset.description = remote[dataset.id].description
            /\ dataset.owners = remote[dataset.id].owners
            /\ cfg.refresh_columns => ~remote[dataset.id].stale
        /\ pc = "next" =>
            /\ outcome[idx] \in {"stored", "unstored"} => log = AllSteps
            /\ outcome[idx] = "skipped" => log = BeforeRead \o <<"read">>
            /\ outcome[idx] = "write_failed" => log = BeforeRead \o <<"read", "write">>
            /\ outcome[idx] = "error" => Last(log) \in {"refresh", "read"}

\* a dataset whose columns were behind: refreshed, the pause, read with the
\* column the refresh brought, written, the pause
C19_Witness ==
    /\ pc = "next"
    /\ idx > 0
    /\ outcome[idx] = "stored"
    /\ log = <<"refresh", "pause", "read", "write", "pause">>
    /\ \E i \in 1..Len(dataset.columns) : dataset.columns[i].column_name = "added"

\* main is in its loop, or past it
InLoop == pc \in {"next", "refresh", "read", "merge", "put", "done"}

\* the datasets the fetch was answered and let through that dbt has a table
\* for, in page-then-record order
InOrder == SelectSeq(ReceivedWanted, LAMBDA d : d.key \in DOMAIN dbt_tables)

\* C20: the loop takes up the datasets in the order the fetch returned them,
\* those without a dbt table left out; when it takes up a dataset, each
\* dataset before it has ended with a write, a skip or a logged error and
\* none after it has been touched; the requests of a call are those of the
\* dataset in hand
C20_EntityOrder ==
    InLoop =>
        /\ idx <= Len(InOrder)
        /\ attempted = [i \in 1..idx |-> InOrder[i].id]
        /\ pc = "done" => idx = Len(InOrder)
        /\ Len(outcome) = Len(InOrder)
        /\ \A i \in 1..Len(outcome) :
            /\ i < idx => outcome[i] # "pending"
            /\ i > idx => outcome[i] = "pending"
            /\ i = idx => (outcome[i] = "pending" <=> pc \in {"refresh", "read", "merge", "put"})
        /\ idx > 0 =>
            /\ dataset.id = InOrder[idx].id
            /\ \A i \in 1..Len(call.sends) :
                call.sends[i].endpoint \in
                    {RefreshEndpoint(dataset.id), DatasetEndpoint(dataset.id),
                     WriteEndpoint(dataset.id), RefreshTokenEndpoint}

\* the remote lists the datasets from the highest id down, among datasets dbt
\* has no table for: main has processed all that match, in that order
C20_Witness ==
    /\ pc = "done"
    /\ Len(attempted) = MaxDatasets
    /\ attempted[1] > attempted[2]
    /\ Len(sst_datasets) > Len(attempted)
    /\ outcome[1] = "error"
    /\ outcome[2] = "stored"

----------------------------------------------------------------------------
(* Properties of what a run touches at the remote, read off the listing, the
   manifest and the requests of the call made last *)

\* the requests of the last call that name a dataset: the column refresh, the
\* read and the write
EntitySends == SelectSeq(call.sends, LAMBDA s : Len(s.endpoint) >= 2)

\* the record of the listing is matched: the filters of the run let it
\* through and an entry of the database asked for has its key
Matched(r) ==
    /\ Wanted(r)
    /\ \E i \in 1..Len(ScopedEntries) :
        Key(ScopedEntries[i].schema, ScopedEntries[i].name) = Key(r.schema, r.table_name)

\* the ids of the listing's matched records
MatchedIds == {Flat(listing)[i].id : i \in {j \in 1..Len(Flat(listing)) : Matched(Flat(listing)[j])}}

\* the ids of the listing's records that are virtual, of another database,
\* without the substring asked for or without a table of their key
UnmatchedIds == {Flat(listing)[i].id : i \in {j \in 1..Len(Flat(listing)) : ~Matched(Flat(listing)[j])}}

\* C21: every dataset the loop takes up, merges and sends a column refresh, a
\* read or a write for is a record of the listing that is physical, of the
\* database asked for, with the substring asked for in its key, and whose key
\* the loaded dbt tables have; a record that is virtual, filtered out or
\* without a dbt table of its key is never taken up, refreshed, read or
\* written, and the remote's dataset of it stays as it was
C21_OnlyMatchedTouched ==
    /\ \A i \in 1..Len(attempted) : attempted[i] \in MatchedIds \ UnmatchedIds
    /\ \A i \in 1..Len(matched) :
        matched[i].id \in MatchedIds /\ matched[i].key \in DOMAIN dbt_tables
    /\ idx > 0 => dataset.id \in MatchedIds /\ dataset.key \in DOMAIN dbt_tables
    /\ \A i \in 1..Len(EntitySends) :
        /\ EntitySends[i].endpoint[2] \in MatchedIds \ UnmatchedIds
        /\ idx > 0 /\ EntitySends[i].endpoint[2] = dataset.id
    /\ \A id \in DOMAIN remote : id > MaxDatasets => remote[id] = EndToEnd.remote

\* the run has ended with a write stored; the listing has a virtual record, a
\* record of another database, a record of another schema and a record dbt
\* has no table for, the last one fetched and left out of the loop
C21_Witness ==
    /\ pc = "done"
    /\ mutated
    /\ \E i \in 1..Len(outcome) : outcome[i] = "stored"
    /\ \E i \in 1..Len(sst_datasets) : sst_datasets[i].id \in UnmatchedIds
    /\ \E i, j, k \in 1..Len(Flat(listing)) :
        /\ Flat(listing)[i].kind = "virtual"
        /\ Flat(listing)[j].database.id # cfg.superset_db_id
        /\ ~Contains(Key(Flat(listing)[k].schema, Flat(listing)[k].table_name),
                     cfg.dataset_filter)
    /\ \A i \in 1..Len(attempted) : attempted[i] \notin UnmatchedIds

----------------------------------------------------------------------------
(* Properties of the session's tokens, read off each step of main and the
   requests of the call the step made *)

\* the i-th request of the call c is a refresh exchange the remote accepted
Exchanged(c, i) ==
    c.sends[i].endpoint = RefreshTokenEndpoint /\ c.sends[i].status < 400

\* the access token the session holds when the i-th request of the call c is
\* sent: the one of before the call, or the one of the exchange before it
TokenAt(c, i) ==
    IF \E j \in 1..(i - 1) : Exchanged(c, j) THEN c.after ELSE c.before

\* the request carries the token as its bearer credential
Carries(s, token) ==
    "Authorization" \in DOMAIN s.headers /\ s.headers.Authorization = Bearer(token)

\* the requests of the call c carry the credentials they should: the login
\* none, the refresh exchange the refresh token, every other one the access
\* token of the moment
Credentialed(c, rtoken) ==
    \A i \in 1..Len(c.sends) :
        IF c.sends[i].endpoint = LoginEndpoint
        THEN "Authorization" \notin DOMAIN c.sends[i].headers
        ELSE IF c.sends[i].endpoint = RefreshTokenEndpoint
             THEN Carries(c.sends[i], rtoken)
             ELSE TokenAt(c, i) # None /\ Carries(c.sends[i], TokenAt(c, i))

\* one step of main, as the tokens see it
TokenFrame ==
    /\ pc # "login" => refresh_token' = refresh_token
    /\ pc = "login" /\ call'.raised =>
        access_token' = access_token /\ refresh_token' = refresh_token
    /\ pc # "login" /\ access_token' # access_token =>
        /\ \E i \in 1..Len(call'.sends) : Exchanged(call', i)
        /\ call'.before = access_token
        /\ call'.after = access_token'
        /\ access_token' = AccessToken(issued')
        /\ issued' = issued + 1
    /\ call' # call /\ call'.sends # <<>> =>
        /\ call'.before = access_token
        /\ pc # "login" => call'.after = access_token'
        /\ pc # "login" /\ (\E i \in 1..Len(call'.sends) : Exchanged(call', i)) =>
            access_token' # access_token
        /\ \A i \in 1..Len(call'.sends) :
            (call'.sends[i].endpoint = RefreshTokenEndpoint
                /\ call'.sends[i].status >= 400) =>
                    /\ i = Len(call'.sends)
                    /\ call'.raised
                    /\ access_token' = access_token
        /\ Credentialed(call', refresh_token)

\* C22: after the login the refresh token stays as it is to the end of the
\* run; the access token changes only in a call whose refresh exchange the
\* remote accepted, and then to the token of that exchange, whether the
\* request sent again succeeds or not; a login that fails,
\* a request answered with an error, a refresh exchange answered with an
\* error (the call then raises with no request after the exchange) and a
\* request that needs no refresh leave both tokens as they were; every
\* request except the login and the refresh exchange carries the access token
\* the session holds when it is sent as its bearer credential
C22_SessionTokenFrame == [][TokenFrame]_vars

\* a request of the loop was answered 'Token has expired', the exchange gave
\* a new access token, the request sent again with it was answered with an
\* error: the call has raised, the session holds the new token
C22_Witness ==
    /\ idx > 0
    /\ Len(call.sends) = 3
    /\ Exchanged(call, 2)
    /\ call.raised
    /\ call.after # call.before
    /\ access_token = call.after
    /\ refresh_token = RefreshToken
    /\ Carries(call.sends[1], call.before)
    /\ Carries(call.sends[3], call.after)

====
